---- MODULE Spec2Model ----
(***************************************************************************)
(* A model of langfuse_streamlit_app.py: the paginated trace fetcher with  *)
(* its timestamp fallback chain, the per-trace field extraction and        *)
(* validation counters, the observation usage collector and summarizer,    *)
(* and the field/usage join of the dashboard.                              *)
(*                                                                         *)
(* JSON values are tagged records: Null, Str(s), Num(n), Bool(b), List(l), *)
(* Dict(d).  A Python dict is a function from its keys; a Python str that  *)
(* the code splits or rewrites is a sequence of one-character strings.     *)
(***************************************************************************)
EXTENDS Integers, Sequences, FiniteSets, TLC

\* ------------------------------------------------------------------ bounds
\* Largest number of pages the trace endpoint holds.
MaxPages == 2
\* Largest number of traces in one analysed batch.
MaxTraces == 2
\* Largest number of observations the observation endpoint holds.
MaxObs == 2
\* Largest number of analyze_traces calls on one analyzer object.
MaxRuns == 2

\* ------------------------------------------------------------- JSON values
Null == [t |-> "null"]
Str(s) == [t |-> "str", s |-> s]
Num(n) == [t |-> "num", n |-> n]
Bool(b) == [t |-> "bool", b |-> b]
List(l) == [t |-> "list", l |-> l]
Dict(d) == [t |-> "dict", d |-> d]
EmptyDict == <<>>

\* A key left out of a payload under construction.
Absent == [t |-> "absent"]
MkDict(f) == [k \in {x \in DOMAIN f : f[x] # Absent} |-> f[k]]

\* dict.get(k) and dict.get(k, default) on the content of a dict.
Get(d, k) == IF k \in DOMAIN d THEN d[k] ELSE Null
GetDefault(d, k, default) == IF k \in DOMAIN d THEN d[k] ELSE default

\* Python truthiness of a JSON value.
Truthy(v) ==
    CASE v.t = "null" -> FALSE
      [] v.t = "str" -> v.s # ""
      [] v.t = "num" -> v.n # 0
      [] v.t = "bool" -> v.b
      [] v.t = "list" -> v.l # <<>>
      [] v.t = "dict" -> DOMAIN v.d # {}

\* The outcome of a call: a value, or an exception that propagates.
Ok(v) == [t |-> "ok", v |-> v]
Raise(e) == [t |-> "raise", exc |-> e]

\* collections.Counter: c[k] and c[k] += 1.
Count(c, k) == IF k \in DOMAIN c THEN c[k] ELSE 0
Inc(c, k) == [x \in DOMAIN c \cup {k} |-> IF x = k THEN Count(c, k) + 1 ELSE c[x]]

\* ------------------------------------------------- timestamps as char lists
\* str.replace(old, new) for a one-character old.
RECURSIVE Replace(_, _, _)
Replace(s, old, new) ==
    IF s = <<>> THEN <<>>
    ELSE (IF Head(s) = old THEN new ELSE <<Head(s)>>) \o Replace(Tail(s), old, new)

\* str.split(sep)[0] for a one-character sep: the text before the first sep.
RECURSIVE SplitFirst(_, _)
SplitFirst(s, sep) ==
    IF s = <<>> \/ Head(s) = sep THEN <<>>
    ELSE <<Head(s)>> \o SplitFirst(Tail(s), sep)

UtcOffset == <<"+", "0", "0", ":", "0", "0">>

timestamp_formats_to_try(ts) ==
    << ts,
       Replace(ts, "Z", UtcOffset),
       SplitFirst(ts, ".") \o <<"Z">>,
       SplitFirst(ts, "T") >>

\* The last-attempt test is off by one: the fallback starts after the third format.
IsLastFormatEarly(i, formats) == i = Len(formats) - 2

\* i == len(timestamp_formats_to_try) - 1
IsLastFormat(i, formats) == i = Len(formats) - 1

\* The inner handler catches every request failure.
InnerCatchesAll(outcome) == outcome # "ok"

\* except requests.exceptions.HTTPError: raise_for_status() on a non-2xx status.
\* Every other failure (connection error, timeout, a body that is not JSON)
\* leaves the for loop and reaches the outer except Exception.
InnerCatches(outcome) == outcome = "http_error"

\* Inputs: what a caller passes as fromTimestamp.  "1" stands for the date,
\* "2" for the time of day, "3" for the microseconds.
TsFull == <<"1", "T", "2", ".", "3", "Z">>
TsSeconds == <<"1", "T", "2", "Z">>
TsDate == <<"1">>
KwargsInputs ==
    {EmptyDict} \cup {[fromTimestamp |-> ts] : ts \in {TsFull, TsSeconds, TsDate}}

\* What one HTTP request can end in.
Outcomes == {"ok", "http_error", "error"}

\* The data array of one page of the trace endpoint: trace ids.
PageDatas == {<<>>, <<1>>, <<2, 1>>}

RECURSIVE SeqsUpTo(_, _)
SeqsUpTo(S, n) ==
    IF n = 0 THEN {<<>>}
    ELSE SeqsUpTo(S, n - 1) \cup
         {Append(s, x) : s \in {q \in SeqsUpTo(S, n - 1) : Len(q) = n - 1}, x \in S}

VARIABLES
    server_pages,   \* the trace endpoint: the data array of each page
    kwargs,         \* the parameters get_traces_list_all was called with
    fpc,            \* where get_traces_list_all is: idle, discovery, pages, done
    call,           \* the running _get_traces_list call
    http_log,       \* every request issued, in order, with how it ended
    ui,             \* st.error / st.warning / st.success calls, in order
    last_ret,       \* what the last _get_traces_list call returned
    total_pages,
    full_list,
    fetch_ret,      \* what fetch_traces_data returned
    analyzer,       \* the attributes of the LangFuseTraceAnalyzer object
    apc,            \* where the script run is: idle, traces, obs_discovery,
                    \* obs_pages, done, failed
    traces_list,    \* the batch analyze_traces was called with
    tpos,           \* the index of the next trace of the for loop
    exc,            \* the exception that ended the run, if any
    obs_server,     \* the observation endpoint: its records and default limit
    obs_total_pages,
    obs_page,       \* the next page _check_usage3 asks for
    obs_log,        \* the parameters of every observation request, in order
    session_state,  \* st.session_state
    runs            \* how many times analyze_traces was called on the analyzer

fetch_vars == <<server_pages, kwargs, fpc, call, http_log, ui, last_ret,
                total_pages, full_list, fetch_ret>>

run_vars == <<apc, traces_list, tpos, exc, obs_server, obs_total_pages,
              obs_page, obs_log, session_state, runs>>

vars == <<fetch_vars, analyzer, run_vars>>

\* ------------------------------------------------------------ the analyzer
\* _clear_local: every attribute it names is reset.  usage_data_summarized2
\* is not among them (it is first assigned by summarize_usage_data), nor are
\* processed_ids and usage_data_names, which nothing else reads or writes.
_clear_local(self) ==
    [self EXCEPT
        !.fields_counters = [total |-> EmptyDict, valid |-> EmptyDict,
                             empty |-> EmptyDict, suggestion |-> EmptyDict,
                             warning |-> EmptyDict],
        !.suggestions = <<>>,
        !.warnings = <<>>,
        !.trace_names = EmptyDict,
        !.trace_names_counters = EmptyDict,
        !.usage_data = <<>>,
        !.usage_data_traces = <<>>,
        !.usage_data_summarized = EmptyDict,
        !.trace_important_data_by_group = EmptyDict]

\* __init__: the attributes after construction.
NewAnalyzer ==
    _clear_local([fields_counters |-> EmptyDict, suggestions |-> <<>>,
                  warnings |-> <<>>, trace_names |-> EmptyDict,
                  trace_names_counters |-> EmptyDict, usage_data |-> <<>>,
                  usage_data_traces |-> <<>>, usage_data_summarized |-> EmptyDict,
                  usage_data_summarized2 |-> Absent,
                  trace_important_data_by_group |-> EmptyDict])

\* The outcome of a method: the object as the method left it, and the
\* exception it raised, if any.
Done(self) == [t |-> "ok", self |-> self, exc |-> "none"]
Fail(self, e) == [t |-> "raise", self |-> self, exc |-> e]
Then(r, F(_)) == IF r.t = "raise" THEN r ELSE F(r.self)

\* args[0] of a truthy input.args.
FirstArg(args) ==
    CASE args.t = "list" -> Ok(args.l[1])
      [] args.t = "str" -> Ok(Str("c"))          \* a character of the string
      [] args.t = "dict" -> Raise("KeyError")    \* no key 0
      [] OTHER -> Raise("TypeError")             \* len() of a number

\* The positional path is taken only when there is no keyword path.
UseArgsUnlessKwargs(input) ==
    Truthy(Get(input.d, "args")) /\ "kwargs" \notin DOMAIN input.d

\* if trace_item['input'].get('args') and len(trace_item['input']['args']) > 0:
UseArgs(input) == Truthy(Get(input.d, "args"))

_get_input_arg(trace_item) ==
    LET input == Get(trace_item, "input")
    IN IF input = Null THEN Ok([f_name |-> Null, f_value |-> Null])
       ELSE IF input.t # "dict" THEN Raise("AttributeError")
       ELSE IF UseArgs(input)
       THEN LET first == FirstArg(Get(input.d, "args"))
            IN IF first.t = "raise" THEN first
               ELSE IF first.v.t # "dict" THEN Raise("AttributeError")
               ELSE Ok([f_value |-> Get(first.v.d, "value"),
                        f_name |-> Get(first.v.d, "field_name")])
       ELSE LET kw == GetDefault(input.d, "kwargs", Dict(EmptyDict))
            IN IF kw.t # "dict" THEN Raise("AttributeError")
               ELSE LET kw_arg == GetDefault(kw.d, "request", Dict(EmptyDict))
                    IN IF kw_arg.t # "dict" THEN Raise("AttributeError")
                       ELSE Ok([f_value |-> Get(kw_arg.d, "value"),
                                f_name |-> Get(kw_arg.d, "field_name")])

OutputKeys == {"valid", "empty", "suggestion", "warning"}
ret_dict_base == [k \in OutputKeys |-> Str("")]

_get_output_arg(trace_item) ==
    LET output == Get(trace_item, "output")
    IN IF output = Null THEN Ok(ret_dict_base)
       ELSE IF output.t \in {"num", "bool"} THEN Raise("TypeError")
       ELSE IF output.t # "dict" THEN Raise("AttributeError")
       ELSE LET out_row == IF "content" \in DOMAIN output.d
                           THEN output.d["content"] ELSE output
            IN IF out_row.t # "dict" THEN Raise("AttributeError")
               ELSE Ok([k \in OutputKeys |-> GetDefault(out_row.d, k, Str(""))])

\* if input_arg['f_name']:
CountsTotal(f_name) == Truthy(f_name)

\* empty is counted for every falsy value.
CountsEmptyFalsy(f_name, f_value) == f_name # Null /\ ~Truthy(f_value)

\* if input_arg['f_name'] is not None and input_arg['f_value'] is None:
CountsEmpty(f_name, f_value) == f_name # Null /\ f_value = Null

_check_basics(self, trace_item) ==
    LET input_arg == _get_input_arg(trace_item)
        output_arg == _get_output_arg(trace_item)
    IN IF input_arg.t = "raise" THEN Fail(self, input_arg.exc)
       ELSE IF output_arg.t = "raise" THEN Fail(self, output_arg.exc)
       ELSE LET f_name == input_arg.v.f_name
                fc == self.fields_counters
                fc1 == IF CountsTotal(f_name)
                       THEN [fc EXCEPT !.total = Inc(@, f_name)] ELSE fc
                fc2 == IF Truthy(output_arg.v["valid"])
                       THEN [fc1 EXCEPT !.valid = Inc(@, f_name)] ELSE fc1
                fc3 == IF CountsEmpty(f_name, input_arg.v.f_value)
                       THEN [fc2 EXCEPT !.empty = Inc(@, f_name)] ELSE fc2
            IN Done([self EXCEPT !.fields_counters = fc3])

\* _check_suggestions and _check_warnings: the same code for the two signals.
CheckSignal(self, trace_item, signal, list) ==
    LET input_arg == _get_input_arg(trace_item)
        output_arg == _get_output_arg(trace_item)
    IN IF input_arg.t = "raise" THEN Fail(self, input_arg.exc)
       ELSE IF output_arg.t = "raise" THEN Fail(self, output_arg.exc)
       ELSE IF ~Truthy(output_arg.v[signal]) THEN Done(self)
       ELSE LET counted == [self EXCEPT
                    !.fields_counters[signal] = Inc(@, input_arg.v.f_name)]
            IN IF "id" \notin DOMAIN trace_item THEN Fail(counted, "KeyError")
               ELSE Done([counted EXCEPT ![list] = Append(@,
                        (signal :> output_arg.v[signal]) @@
                        [field_name |-> input_arg.v.f_name,
                         raw_value |-> input_arg.v.f_value,
                         trace_id |-> trace_item["id"]])])

\* The suggestion record is written for the warning signal.
_check_suggestions_crossed(self, trace_item) ==
    CheckSignal(self, trace_item, "warning", "suggestions")

_check_suggestions(self, trace_item) ==
    CheckSignal(self, trace_item, "suggestion", "suggestions")

\* The body of _check_suggestions pasted unchanged.
_check_warnings_pasted(self, trace_item) ==
    CheckSignal(self, trace_item, "suggestion", "suggestions")

_check_warnings(self, trace_item) ==
    CheckSignal(self, trace_item, "warning", "warnings")

VF == "validate-field"

\* The ids of the traces of a batch, in sorted order.
TraceIds == <<"t1", "t2", "t3", "t4">>

_check_important_info_validate_field(self, trace_item) ==
    LET input_arg == _get_input_arg(trace_item)
        output_arg == _get_output_arg(trace_item)
    IN IF input_arg.t = "raise" THEN Fail(self, input_arg.exc)
       ELSE IF output_arg.t = "raise" THEN Fail(self, output_arg.exc)
       ELSE IF "id" \notin DOMAIN trace_item THEN Fail(self, "KeyError")
       ELSE Done([self EXCEPT !.trace_important_data_by_group[VF] = Append(@,
                    [trace_id |-> trace_item["id"],
                     field_name |-> input_arg.v.f_name,
                     field_value |-> input_arg.v.f_value])])

\* Every trace gets the detailed analysis.
IsValidateFieldAny(trace_name) == TRUE

\* if trace_name == 'validate-field':
IsValidateField(trace_name) == trace_name = Str(VF)

\* One pass of the for loop of analyze_traces.
analyze_one(self, trace) ==
    LET tid == GetDefault(trace, "id", Str("no_trace_id"))
        trace_name == GetDefault(trace, "name", Str("unnamed"))
        s1 == [self EXCEPT
                !.trace_important_data_by_group[VF] = Append(@, [trace_id |-> tid]),
                !.trace_names = [k \in DOMAIN @ \cup {tid} |->
                                    IF k = tid THEN trace_name ELSE @[k]],
                !.trace_names_counters = Inc(@, trace_name)]
    IN IF IsValidateField(trace_name)
       THEN Then(Then(Then(_check_basics(s1, trace),
                           LAMBDA s : _check_suggestions(s, trace)),
                      LAMBDA s : _check_warnings(s, trace)),
                 LAMBDA s : _check_important_info_validate_field(s, trace))
       ELSE Done(s1)

\* --------------------------------------------------------- usage collection
MetricList == <<"input", "output", "total">>

\* float(x) of a JSON value; a numeric string is a digit.
DigitValue == [d \in {"0", "1", "2", "3"} |->
    CASE d = "0" -> 0 [] d = "1" -> 1 [] d = "2" -> 2 [] d = "3" -> 3]
float(v) ==
    CASE v.t = "num" -> Ok(v.n)
      [] v.t = "bool" -> Ok(IF v.b THEN 1 ELSE 0)
      [] v.t = "str" -> IF v.s \in DOMAIN DigitValue
                        THEN Ok(DigitValue[v.s]) ELSE Raise("ValueError")
      [] OTHER -> Raise("TypeError")

\* except TypeError:
MetricCaught(e) == e = "TypeError"

\* The for loop over metric_list, from metric j on; m is out_dict[metric_type].
\* observation_item[metric_type].get fails when the entry is not a dict.
RECURSIVE ExtractMetrics(_, _, _)
ExtractMetrics(container, j, m) ==
    IF j > Len(MetricList) THEN Ok(m)
    ELSE IF container.t # "dict" THEN Raise("AttributeError")
    ELSE LET f == float(Get(container.d, MetricList[j]))
         IN IF f.t = "raise" /\ ~MetricCaught(f.exc) THEN f
            ELSE ExtractMetrics(container, j + 1,
                    [k \in DOMAIN m \cup {MetricList[j]} |->
                        IF k = MetricList[j]
                        THEN (IF f.t = "raise" THEN 0 ELSE f.v) ELSE m[k]])

_get_observation_cost_usage(observation_item) ==
    LET cost == IF "costDetails" \in DOMAIN observation_item
                THEN ExtractMetrics(observation_item["costDetails"], 1, EmptyDict)
                ELSE Ok(EmptyDict)
        usage == IF "usageDetails" \in DOMAIN observation_item
                 THEN ExtractMetrics(observation_item["usageDetails"], 1, EmptyDict)
                 ELSE Ok(EmptyDict)
    IN IF cost.t = "raise" THEN cost
       ELSE IF usage.t = "raise" THEN usage
       ELSE Ok([id |-> Get(observation_item, "id"),
                trace_id |-> Get(observation_item, "traceId"),
                name |-> Get(observation_item, "name"),
                costDetails |-> cost.v,
                usageDetails |-> usage.v])

\* usage_data_traces is a dict in insertion order: a list of entries.
TraceKeys(udt) == {udt[i].trace_id : i \in 1..Len(udt)}

\* The list of a trace is set to [] before every append.
AddToTraceReset(udt, tid, item) ==
    IF tid \in TraceKeys(udt)
    THEN [i \in 1..Len(udt) |->
            IF udt[i].trace_id = tid
            THEN [udt[i] EXCEPT !.observations = <<item>>] ELSE udt[i]]
    ELSE Append(udt, [trace_id |-> tid, observations |-> <<item>>])

\* if not self.usage_data_traces.get(trace_id, None): ... = []; then append.
AddToTrace(udt, tid, item) ==
    IF tid \in TraceKeys(udt)
    THEN [i \in 1..Len(udt) |->
            IF udt[i].trace_id = tid
            THEN [udt[i] EXCEPT !.observations = Append(@, item)] ELSE udt[i]]
    ELSE Append(udt, [trace_id |-> tid, observations |-> <<item>>])

\* The loop over obs_data_clean of one page.
RECURSIVE CollectUsage(_, _)
CollectUsage(self, os) ==
    IF os = <<>> THEN Done(self)
    ELSE LET o == Head(os)
             obs_usage == _get_observation_cost_usage(o)
         IN IF obs_usage.t = "raise" THEN Fail(self, obs_usage.exc)
            ELSE CollectUsage(
                    [self EXCEPT
                        !.usage_data = Append(@, obs_usage.v),
                        !.usage_data_traces = AddToTrace(@, obs_usage.v.trace_id,
                            [o_id |-> o["id"], usage_cost |-> obs_usage.v])],
                    Tail(os))

\* The observations of other traces are kept as well.
KnownTraceAny(self, o) == TRUE

\* o['traceId'] in self.trace_names.keys()
KnownTrace(self, o) == o["traceId"] \in DOMAIN self.trace_names

\* One page of _check_usage3: filter, then collect.
process_page(self, data) ==
    CollectUsage(self, SelectSeq(data, LAMBDA o : KnownTrace(self, o)))

\* ------------------------------------------------------------- summarizing
\* The total is assigned, not added to: the last observation's value remains.
SumMetricLast(observations, metric_type, metric) ==
    IF observations = <<>> THEN 0
    ELSE GetDefault(observations[Len(observations)].usage_cost[metric_type], metric, 0)

\* The total weighs an observation by its position in the list.
RECURSIVE SumMetricWeighted(_, _, _)
SumMetricWeighted(observations, metric_type, metric) ==
    IF observations = <<>> THEN 0
    ELSE Len(observations)
            * GetDefault(Head(observations).usage_cost[metric_type], metric, 0)
         + SumMetricWeighted(Tail(observations), metric_type, metric)

\* total_<type>_<metric> += <type>_details.get(metric, 0) over the observations.
RECURSIVE SumMetric(_, _, _)
SumMetric(observations, metric_type, metric) ==
    IF observations = <<>> THEN 0
    ELSE GetDefault(Head(observations).usage_cost[metric_type], metric, 0)
         + SumMetric(Tail(observations), metric_type, metric)

Totals(self, entry) ==
    [observations_count |-> Len(entry.observations),
     trace_name |-> self.trace_names[entry.trace_id],
     costDetails_input |-> SumMetric(entry.observations, "costDetails", "input"),
     costDetails_output |-> SumMetric(entry.observations, "costDetails", "output"),
     costDetails_total |-> SumMetric(entry.observations, "costDetails", "total"),
     usageDetails_input |-> SumMetric(entry.observations, "usageDetails", "input"),
     usageDetails_output |-> SumMetric(entry.observations, "usageDetails", "output"),
     usageDetails_total |-> SumMetric(entry.observations, "usageDetails", "total")]

\* The list record carries the usage input total in the cost input column.
ListRecordMixed(tot, trace_id) ==
    [k \in DOMAIN tot \cup {"trace_id"} |->
        IF k = "trace_id" THEN trace_id
        ELSE IF k = "costDetails_input" THEN tot["usageDetails_input"] ELSE tot[k]]

\* The dict appended to usage_data_summarized2.
ListRecord(tot, trace_id) ==
    [k \in DOMAIN tot \cup {"trace_id"} |->
        IF k = "trace_id" THEN trace_id ELSE tot[k]]

\* The loop over usage_data_traces.items(), from entry j on.
RECURSIVE SummarizeFrom(_, _)
SummarizeFrom(self, j) ==
    IF j > Len(self.usage_data_traces) THEN Done(self)
    ELSE LET entry == self.usage_data_traces[j]
         IN IF entry.trace_id \notin DOMAIN self.trace_names
            THEN Fail(self, "KeyError")
            ELSE LET tot == Totals(self, entry)
                     m == self.usage_data_summarized
                 IN SummarizeFrom(
                        [self EXCEPT
                            !.usage_data_summarized =
                                [k \in DOMAIN m \cup {entry.trace_id} |->
                                    IF k = entry.trace_id THEN tot ELSE m[k]],
                            !.usage_data_summarized2 = List(Append(@.l,
                                ListRecord(tot, entry.trace_id)))],
                        j + 1)

summarize_usage_data(self) ==
    SummarizeFrom([self EXCEPT !.usage_data_summarized = EmptyDict,
                               !.usage_data_summarized2 = List(<<>>)], 1)

\* ------------------------------------------------------------- the display
NumericColumns ==
    {"observations_count", "costDetails_input", "costDetails_output",
     "costDetails_total", "usageDetails_input", "usageDetails_output",
     "usageDetails_total"}

\* pd.DataFrame(list of dicts): the columns are the keys met, a missing key is
\* NaN.  An empty list gives a frame without columns.
DataFrame(records) ==
    LET cols == UNION {DOMAIN records[i] : i \in 1..Len(records)}
    IN [t |-> "df", columns |-> cols,
        rows |-> [i \in 1..Len(records) |->
            [c \in cols |->
                IF c \notin DOMAIN records[i] THEN Null
                ELSE IF c \in NumericColumns THEN Num(records[i][c])
                ELSE records[i][c]]]]

RECURSIVE Flatten(_)
Flatten(ss) == IF ss = <<>> THEN <<>> ELSE Head(ss) \o Flatten(Tail(ss))

\* The keys of an outer merge come out sorted.
SortedIds == [i \in 1..Len(TraceIds) |-> Str(TraceIds[i])]

JoinedRow(left, right, l, r) ==
    [c \in left.columns \cup right.columns |->
        IF c \in left.columns THEN l[c] ELSE r[c]]

\* The rows of an outer merge for key k.
KeyRows(left, right, on, k) ==
    LET L == SelectSeq(left.rows, LAMBDA x : x[on] = k)
        R == SelectSeq(right.rows, LAMBDA x : x[on] = k)
        nullL == [c \in left.columns |-> IF c = on THEN k ELSE Null]
        nullR == [c \in right.columns |-> Null]
    IN IF L # <<>> /\ R # <<>>
       THEN [n \in 1..(Len(L) * Len(R)) |->
                JoinedRow(left, right, L[((n - 1) \div Len(R)) + 1],
                                       R[((n - 1) % Len(R)) + 1])]
       ELSE IF L # <<>> THEN [n \in 1..Len(L) |-> JoinedRow(left, right, L[n], nullR)]
       ELSE [n \in 1..Len(R) |-> JoinedRow(left, right, nullL, R[n])]

\* left.merge(right, on=on, how='outer').  A frame without the key column
\* (an empty frame has no column at all) makes merge raise KeyError.
merge_outer(left, right, on) ==
    IF on \notin left.columns \/ on \notin right.columns THEN Raise("KeyError")
    ELSE Ok([t |-> "df", columns |-> left.columns \cup right.columns,
             rows |-> Flatten([i \in 1..Len(SortedIds) |->
                                KeyRows(left, right, on, SortedIds[i])])])

\* The field records of the join: the entries of the group that carry a
\* field_name.
imp_data_vf(self) ==
    SelectSeq(self.trace_important_data_by_group[VF], LAMBDA f : "field_name" \in DOMAIN f)

\* display_validate_field_analysis: the join and what it stores.
display_validate_field_analysis(self, session) ==
    LET sdf2 == DataFrame(self.usage_data_summarized2.l)
        imp_df2 == DataFrame(imp_data_vf(self))
    IN IF Count(self.trace_names_counters, Str(VF)) > 0
       THEN LET join_df == merge_outer(imp_df2, sdf2, "trace_id")
            IN IF join_df.t = "raise" THEN [t |-> "raise", session |-> session, exc |-> join_df.exc]
               ELSE [t |-> "ok", exc |-> "none",
                     session |-> [k \in DOMAIN session \cup {"join_df"} |->
                                    IF k = "join_df" THEN join_df.v ELSE session[k]]]
       ELSE [t |-> "ok", session |-> session, exc |-> "none"]

\* The Profile Steps tab: st.session_state['join_df'].copy()
profile_steps(session) ==
    IF "join_df" \in DOMAIN session THEN "none" ELSE "KeyError"

\* Lines 24-25, run at the start of every script run.
module_init(session) ==
    IF "join_df" \notin DOMAIN session
    THEN [k \in DOMAIN session \cup {"join"} |->
            IF k = "join" THEN Null ELSE session[k]]
    ELSE session

\* ------------------------------------------------------- observation endpoint
ObsIds == <<"o1", "o2", "o3", "o4">>
ObsDiscoveryLimit == 50

CeilDiv(a, b) == (a + b - 1) \div b

\* The 2xx answer of the observation endpoint.
ObsResponse(params) ==
    LET limit == IF "limit" \in DOMAIN params THEN params.limit ELSE obs_server.limit
        page == IF "page" \in DOMAIN params THEN params.page ELSE 1
        all == obs_server.obs
        first == (page - 1) * limit + 1
        last == IF page * limit < Len(all) THEN page * limit ELSE Len(all)
    IN [meta |-> [totalPages |-> CeilDiv(Len(all), limit)],
        data |-> IF first > last THEN <<>> ELSE SubSeq(all, first, last)]

\* ------------------------------------------------------------ trace batches
ArgsInput(n, v) ==
    Dict([args |-> List(<<Dict(MkDict([field_name |-> n, value |-> v]))>>)])
KwargsInput(n, v) ==
    Dict([args |-> List(<<>>),
          kwargs |-> Dict([request |-> Dict(MkDict([field_name |-> n, value |-> v]))])])
FlatOutput(valid, suggestion, warning) ==
    Dict(MkDict([valid |-> valid, suggestion |-> suggestion, warning |-> warning]))

InputsCore ==
    { Absent,
      Str("raw"),
      ArgsInput(Absent, Str("Jane")),
      ArgsInput(Str(""), Null),
      ArgsInput(Str("first_name"), Null),
      ArgsInput(Str("first_name"), Str("")),
      ArgsInput(Str("first_name"), Str("Jane")),
      KwargsInput(Str("email"), Str("x")) }
OutputsCore ==
    { FlatOutput(Absent, Absent, Absent),
      FlatOutput(Str("ok"), Absent, Absent),
      FlatOutput(Absent, Str("try"), Str("missing")),
      FlatOutput(Str("ok"), Str("try"), Str("missing")) }
OutputsMore ==
    { Absent,
      FlatOutput(Absent, Str("try"), Str("")),
      Dict([content |-> FlatOutput(Str("ok"), Absent, Str(""))]),
      Dict([content |-> Null]) }

\* Present values that are falsy, and the shapes of input around the two paths.
InputsMore ==
    { ArgsInput(Str("first_name"), Num(0)),
      ArgsInput(Str("first_name"), Bool(FALSE)),
      ArgsInput(Str("first_name"), List(<<>>)),
      Dict([args |-> List(<<Dict([field_name |-> Str("first_name"), value |-> Str("Jane")]),
                            Dict([field_name |-> Str("last_name"), value |-> Str("Doe")])>>),
            kwargs |-> Dict([request |-> Dict([field_name |-> Str("email"),
                                               value |-> Str("x")])])]),
      Dict([kwargs |-> Dict([request |-> Dict([field_name |-> Str("email")])])]),
      Dict([kwargs |-> Dict(EmptyDict)]),
      Dict(EmptyDict) }

\* The traces of a batch, without their ids.
TraceUniverse ==
    { MkDict([name |-> Str(VF), input |-> i, output |-> o]) :
            i \in InputsCore, o \in OutputsCore }
    \cup { MkDict([name |-> Str(VF), input |-> ArgsInput(Str("first_name"), Str("Jane")),
                   output |-> o]) : o \in OutputsMore }
    \cup { MkDict([name |-> Str(VF), input |-> i,
                   output |-> FlatOutput(Str("ok"), Absent, Absent)]) : i \in InputsMore }
    \cup { MkDict([name |-> n, input |-> Absent, output |-> Absent]) :
            n \in {Str("other"), Absent, Null} }
    \cup { MkDict([name |-> Str("other"), input |-> ArgsInput(Str("first_name"), Null),
                   output |-> FlatOutput(Str("ok"), Str("try"), Str("missing"))]) }

\* The API gives every trace an id, unique in the batch.
WithIds(ts) ==
    [k \in 1..Len(ts) |->
        [key \in DOMAIN ts[k] \cup {"id"} |->
            IF key = "id" THEN Str(TraceIds[k]) ELSE ts[k][key]]]

Batches(U) == {WithIds(ts) : ts \in SeqsUpTo(U, MaxTraces) \ {<<>>}}

\* ------------------------------------------------------------ trace endpoint
\* The 2xx answer of the trace endpoint to a request with these parameters.
ServerResponse(params) ==
    LET page == IF "page" \in DOMAIN params THEN params.page ELSE 1
        data == IF page \in 1..Len(server_pages) THEN server_pages[page] ELSE <<>>
    IN [t |-> "dict", status |-> 200,
        response |-> [meta |-> [totalPages |-> Len(server_pages)], data |-> data]]

NewCall(page) == [page |-> page, i |-> 0, nots |-> FALSE]

\* The keyword arguments of the running call: page=page_num, **kwargs.
CallKwargs ==
    IF call.page = 0 THEN kwargs
    ELSE [k \in DOMAIN kwargs \cup {"page"} |->
            IF k = "page" THEN call.page ELSE kwargs[k]]

WithoutTimestamp(kw) == [k \in DOMAIN kw \ {"fromTimestamp"} |-> kw[k]]

UiMsg(level, msg) == [call |-> call.page, level |-> level, msg |-> msg]

\* ------------------------------------------------------ get_traces_list_all
\* The data of the discovery response is added to the result as well.
ExtendWithDiscovery(full, resp, page) ==
    IF resp = Null THEN full ELSE full \o resp.response.data

\* full_list.extend(pages) for the response of a page request; the discovery
\* response contributes nothing.
ExtendFullList(full, resp, page) ==
    IF page = 0 \/ resp = Null THEN full ELSE full \o resp.response.data

\* The loop stops one page early.
HasNextPageShort(page, total) == page + 1 < total

\* for pn in range(total_pages): page_num = pn + 1
HasNextPage(page, total) == page < total

\* The failure is swallowed: nothing is shown.
FetchErrorSilent(uilog, c) == uilog

\* except Exception as e: st.error(f"Error fetching traces: {str(e)}")
FetchErrorUi(uilog, c) ==
    Append(uilog, [call |-> c, level |-> "error", msg |-> "Error fetching traces"])

\* if not all_traces: st.warning(...); return None -- else st.success(...);
\* return all_traces.  An empty list is all the caller sees of a failed fetch.
fetch_traces_data_result(all_traces) ==
    IF all_traces = <<>>
    THEN [ret |-> Null, level |-> "warning",
          msg |-> "No traces found or error occurred while fetching data."]
    ELSE [ret |-> List(all_traces), level |-> "success", msg |-> "Loaded traces"]

\* get_traces_list_all returns full_list and fetch_traces_data finishes.
Finish(full, uilog) ==
    LET r == fetch_traces_data_result(full)
    IN /\ fpc' = "done"
       /\ fetch_ret' = r.ret
       /\ ui' = Append(uilog, [call |-> -1, level |-> r.level, msg |-> r.msg])

\* get_traces_list_all resumes with the value the running call returned.
ReturnToCaller(resp, uilog) ==
    LET full == ExtendFullList(full_list, resp, call.page)
    IN /\ last_ret' = [call |-> call.page, value |-> resp]
       /\ full_list' = full
       /\ IF call.page = 0
          THEN IF resp = Null
               THEN /\ Finish(full, uilog)
                    /\ UNCHANGED <<total_pages, call>>
               ELSE /\ total_pages' = resp.response.meta.totalPages
                    /\ IF resp.response.meta.totalPages = 0
                       THEN Finish(full, uilog) /\ UNCHANGED call
                       ELSE /\ call' = NewCall(1)
                            /\ fpc' = "pages"
                            /\ ui' = uilog
                            /\ UNCHANGED fetch_ret
          ELSE /\ UNCHANGED total_pages
               /\ IF HasNextPage(call.page, total_pages)
                  THEN /\ call' = NewCall(call.page + 1)
                       /\ ui' = uilog
                       /\ UNCHANGED <<fpc, fetch_ret>>
                  ELSE Finish(full, uilog) /\ UNCHANGED call

\* fetch_traces_data calls get_traces_list_all(**api_params): the state is
\* cleared and the discovery call begins.
FetchStart ==
    /\ fpc = "idle"
    /\ \E kw \in KwargsInputs : kwargs' = kw
    /\ fpc' = "discovery"
    /\ call' = NewCall(0)
    /\ full_list' = <<>>
    /\ analyzer' = _clear_local(analyzer)
    /\ UNCHANGED <<server_pages, http_log, ui, last_ret, total_pages, fetch_ret, run_vars>>

\* The retry is made with the timestamp still in place: the chain starts over.
RetryWithTimestamp(c) == [c EXCEPT !.i = 0]

\* kwargs_without_ts = {k: v for k, v in kwargs.items() if k != 'fromTimestamp'}
\* return self._get_traces_list(**kwargs_without_ts)
RetryWithoutTimestamp(c) == [c EXCEPT !.nots = TRUE]

\* One pass of the for loop over timestamp_formats_to_try: one request.
TimestampAttempt ==
    /\ fpc \in {"discovery", "pages"}
    /\ "fromTimestamp" \in DOMAIN kwargs
    /\ ~call.nots
    /\ \E outcome \in Outcomes :
        LET formats == timestamp_formats_to_try(kwargs.fromTimestamp)
            fmt == formats[call.i + 1]
            params == [CallKwargs EXCEPT !.fromTimestamp = fmt]
        IN /\ http_log' = Append(http_log,
                    [call |-> call.page, params |-> params, outcome |-> outcome])
           /\ IF outcome = "ok"
              THEN ReturnToCaller(ServerResponse(params), ui)
              ELSE IF InnerCatches(outcome)
              THEN IF IsLastFormat(call.i, formats)
                   THEN /\ call' = RetryWithoutTimestamp(call)
                        /\ ui' = ui \o <<UiMsg("error", "Error with timestamp format"),
                                         UiMsg("warning", "Falling back")>>
                        /\ UNCHANGED <<fpc, last_ret, total_pages, full_list, fetch_ret>>
                   ELSE /\ call' = [call EXCEPT !.i = @ + 1]
                        /\ UNCHANGED <<fpc, ui, last_ret, total_pages, full_list, fetch_ret>>
              ELSE ReturnToCaller(Null, FetchErrorUi(ui, call.page))
    /\ UNCHANGED <<server_pages, kwargs, analyzer, run_vars>>

\* The request without fromTimestamp: the else branch, or the recursive call
\* made after the last format failed.
PlainRequest ==
    /\ fpc \in {"discovery", "pages"}
    /\ "fromTimestamp" \notin DOMAIN kwargs \/ call.nots
    /\ \E outcome \in Outcomes :
        LET params == WithoutTimestamp(CallKwargs)
        IN /\ http_log' = Append(http_log,
                    [call |-> call.page, params |-> params, outcome |-> outcome])
           /\ IF outcome = "ok"
              THEN ReturnToCaller(ServerResponse(params), ui)
              ELSE ReturnToCaller(Null, FetchErrorUi(ui, call.page))
    /\ UNCHANGED <<server_pages, kwargs, analyzer, run_vars>>

\* ------------------------------------------------------------ observations
CostOf(a, b, c) == Dict(MkDict([input |-> a, output |-> b, total |-> c]))

\* A plain observation of trace tid.
PlainObs(tid) ==
    [traceId |-> Str(tid), name |-> Str("llm"),
     costDetails |-> CostOf(Num(1), Num(2), Num(3)),
     usageDetails |-> CostOf(Num(10), Num(20), Num(30))]

MetricInputs == {Absent, Null, Num(2), Str("3"), Str("abc"), List(<<>>)}

\* Observations whose cost and usage entries take every shape.
ObsRich ==
    { MkDict([traceId |-> Str(tid), name |-> Str("llm"),
              costDetails |-> c, usageDetails |-> u]) :
        tid \in {"t1", "tX"},
        c \in {Absent, Null} \cup {CostOf(v, Num(1), Num(3)) : v \in MetricInputs},
        u \in {Absent, Null, CostOf(Num(10), Absent, Str("abc"))} }
    \cup {PlainObs("t1"), PlainObs("t2")}

ObsWithIds(os) ==
    [k \in 1..Len(os) |->
        [key \in DOMAIN os[k] \cup {"id"} |->
            IF key = "id" THEN Str(ObsIds[k]) ELSE os[k][key]]]

\* A collection one observation longer than the page size of the discovery
\* request: the first and the last observation are of trace t1, the others of
\* a trace that is in no batch.
BigCollection ==
    [k \in 1..(ObsDiscoveryLimit + 1) |->
        [key \in DOMAIN PlainObs("t1") \cup {"id"} |->
            IF key = "id" THEN Str("o" \o ToString(k))
            ELSE PlainObs(IF k \in {1, ObsDiscoveryLimit + 1} THEN "t1" ELSE "tX")[key]]]

\* The observation endpoints of the trace-analysis runs.
ObsServersThin ==
    { [obs |-> ObsWithIds(os), limit |-> 50] :
        os \in { <<>>,
                 <<PlainObs("t1")>>,
                 <<PlainObs("t2"), PlainObs("tX")>>,
                 <<PlainObs("t1"), PlainObs("t2"), PlainObs("t1")>> } }
    \cup { [obs |-> BigCollection, limit |-> d] : d \in {ObsDiscoveryLimit, 2 * ObsDiscoveryLimit} }

\* The observation endpoints of the usage runs; the server's own page size
\* is what a request without limit gets.
ObsServersRich ==
    { [obs |-> ObsWithIds(os), limit |-> d] :
        os \in SeqsUpTo(ObsRich, MaxObs), d \in {1, 50} }

\* The traces of the usage runs.
ThinTraces ==
    { MkDict([name |-> Str(VF), input |-> ArgsInput(Str("first_name"), Str("Jane")),
              output |-> FlatOutput(Str("ok"), Absent, Absent)]),
      MkDict([name |-> Str("other"), input |-> Absent, output |-> Absent]) }

\* ------------------------------------------------------------ the script run
\* analyze_traces, up to its for loop.
BeginAnalyze(self) ==
    [_clear_local(self) EXCEPT !.trace_important_data_by_group = (VF :> <<>>)]

\* What follows the last observation page: summarize_usage_data, then the
\* tabs of main (the join of display_validate_field_analysis and the Profile
\* Steps view).
FinishRun(self) ==
    LET summed == summarize_usage_data(self)
        shown == display_validate_field_analysis(summed.self, session_state)
    IN /\ analyzer' = summed.self
       /\ IF summed.t = "raise"
          THEN apc' = "failed" /\ exc' = summed.exc /\ UNCHANGED session_state
          ELSE /\ session_state' = shown.session
               /\ IF shown.t = "raise"
                  THEN apc' = "failed" /\ exc' = shown.exc
                  ELSE IF profile_steps(shown.session) # "none"
                  THEN apc' = "failed" /\ exc' = profile_steps(shown.session)
                  ELSE apc' = "done" /\ exc' = exc

\* A script run starts: lines 24-25, a new analyzer, the fetched batch (never
\* empty: main returns when it is), analyze_traces_data.
RunStart(U) ==
    /\ apc = "idle"
    /\ \E batch \in Batches(U) : traces_list' = batch
    /\ session_state' = module_init(session_state)
    /\ analyzer' = BeginAnalyze(_clear_local(NewAnalyzer))
    /\ tpos' = 1
    /\ apc' = "traces"
    /\ runs' = 1
    /\ UNCHANGED <<fetch_vars, exc, obs_server, obs_total_pages, obs_page, obs_log>>

\* The script runs again in the same session (a widget was touched, the page
\* was reloaded): lines 24-25 find the session state of the earlier runs, the
\* analyzer is a new one.
ScriptRerun(U) ==
    /\ apc \in {"done", "failed"}
    /\ runs < MaxRuns
    /\ \E batch \in Batches(U) : traces_list' = batch
    /\ session_state' = module_init(session_state)
    /\ analyzer' = BeginAnalyze(_clear_local(NewAnalyzer))
    /\ tpos' = 1
    /\ apc' = "traces"
    /\ exc' = "none"
    /\ runs' = runs + 1
    /\ UNCHANGED <<fetch_vars, obs_server, obs_total_pages, obs_page, obs_log>>

\* analyze_traces is called again on the analyzer of a run that has ended,
\* normally or with an exception.
Reanalyze(U) ==
    /\ apc \in {"done", "failed"}
    /\ runs < MaxRuns
    /\ \E batch \in Batches(U) : traces_list' = batch
    /\ analyzer' = BeginAnalyze(analyzer)
    /\ tpos' = 1
    /\ apc' = "traces"
    /\ exc' = "none"
    /\ runs' = runs + 1
    /\ UNCHANGED <<fetch_vars, obs_server, obs_total_pages, obs_page, obs_log,
                   session_state>>

\* The for loop is left after its first pass.
LastTraceAlways(pos, list) == TRUE

\* for trace in traces_list: the pass at pos is the last one.
LastTrace(pos, list) == pos = Len(list)

\* One pass of the for loop of analyze_traces; after the last one
\* _check_usage3 begins.
AnalyzeTrace ==
    /\ apc = "traces"
    /\ LET r == analyze_one(analyzer, traces_list[tpos])
       IN /\ analyzer' = r.self
          /\ IF r.t = "raise"
             THEN apc' = "failed" /\ exc' = r.exc /\ tpos' = tpos
             ELSE /\ exc' = exc
                  /\ tpos' = tpos + 1
                  /\ apc' = IF LastTrace(tpos, traces_list)
                            THEN "obs_discovery" ELSE "traces"
    /\ UNCHANGED <<fetch_vars, traces_list, obs_server, obs_total_pages, obs_page,
                   obs_log, session_state, runs>>

\* The first request of _check_usage3: limit=50, to read totalPages.  Nothing
\* catches a failure: a request error, or an error body without 'meta'.
ObsDiscovery ==
    /\ apc = "obs_discovery"
    /\ \E outcome \in Outcomes :
        LET params == [limit |-> ObsDiscoveryLimit, type |-> "GENERATION"]
            n == ObsResponse(params).meta.totalPages
        IN /\ obs_log' = Append(obs_log, params)
           /\ IF outcome # "ok"
              THEN /\ apc' = "failed"
                   /\ exc' = IF outcome = "http_error" THEN "KeyError" ELSE "RequestException"
                   /\ UNCHANGED <<analyzer, obs_total_pages, obs_page, session_state>>
              ELSE /\ obs_total_pages' = n
                   /\ IF n = 0
                      THEN FinishRun(analyzer) /\ UNCHANGED obs_page
                      ELSE /\ apc' = "obs_pages"
                           /\ obs_page' = 1
                           /\ UNCHANGED <<analyzer, exc, session_state>>
    /\ UNCHANGED <<fetch_vars, traces_list, tpos, obs_server, runs>>

\* One pass of the page loop of _check_usage3: the request carries the page
\* number and no limit.  After the last page the run goes on to its end.
ObsPage ==
    /\ apc = "obs_pages"
    /\ \E outcome \in Outcomes :
        LET params == [page |-> obs_page, type |-> "GENERATION"]
            r == process_page(analyzer, ObsResponse(params).data)
        IN /\ obs_log' = Append(obs_log, params)
           /\ IF outcome # "ok"
              THEN /\ apc' = "failed"
                   /\ exc' = IF outcome = "http_error" THEN "KeyError" ELSE "RequestException"
                   /\ UNCHANGED <<analyzer, obs_page, session_state>>
              ELSE IF r.t = "raise"
              THEN /\ apc' = "failed"
                   /\ exc' = r.exc
                   /\ analyzer' = r.self
                   /\ UNCHANGED <<obs_page, session_state>>
              ELSE IF obs_page < obs_total_pages
              THEN /\ obs_page' = obs_page + 1
                   /\ analyzer' = r.self
                   /\ UNCHANGED <<apc, exc, session_state>>
              ELSE FinishRun(r.self) /\ UNCHANGED obs_page
    /\ UNCHANGED <<fetch_vars, traces_list, tpos, obs_server, obs_total_pages, runs>>

InitRun ==
    /\ analyzer = NewAnalyzer
    /\ apc = "idle"
    /\ traces_list = <<>>
    /\ tpos = 1
    /\ exc = "none"
    /\ obs_total_pages = 0
    /\ obs_page = 1
    /\ obs_log = <<>>
    /\ session_state = EmptyDict
    /\ runs = 0

InitFetchIdle ==
    /\ server_pages = <<>>
    /\ kwargs = EmptyDict
    /\ fpc = "idle"
    /\ call = NewCall(0)
    /\ http_log = <<>>
    /\ ui = <<>>
    /\ last_ret = [call |-> -1, value |-> Null]
    /\ total_pages = 0
    /\ full_list = <<>>
    /\ fetch_ret = Null

InitAnalyze == InitFetchIdle /\ InitRun /\ obs_server \in ObsServersThin

NextAnalyze == RunStart(TraceUniverse) \/ AnalyzeTrace \/ ObsDiscovery \/ ObsPage

\* The analysis of a batch: every shape of trace, a few observation endpoints.
SpecAnalyze == InitAnalyze /\ [][NextAnalyze]_vars

InitUsage == InitFetchIdle /\ InitRun /\ obs_server \in ObsServersRich

NextUsage == RunStart(ThinTraces) \/ AnalyzeTrace \/ ObsDiscovery \/ ObsPage

\* The usage collection: a few traces, every shape of observation.
SpecUsage == InitUsage /\ [][NextUsage]_vars

NextRerun ==
    \/ RunStart(ThinTraces) \/ AnalyzeTrace \/ ObsDiscovery \/ ObsPage
    \/ Reanalyze(ThinTraces)

\* One analyzer object used for several calls of analyze_traces.
SpecRerun == InitAnalyze /\ [][NextRerun]_vars

NextSession ==
    \/ RunStart(ThinTraces) \/ AnalyzeTrace \/ ObsDiscovery \/ ObsPage
    \/ ScriptRerun(ThinTraces)

\* Several script runs of one browser session.
SpecSession == InitAnalyze /\ [][NextSession]_vars

InitFetch ==
    /\ server_pages \in SeqsUpTo(PageDatas, MaxPages)
    /\ kwargs = EmptyDict
    /\ fpc = "idle"
    /\ call = NewCall(0)
    /\ http_log = <<>>
    /\ ui = <<>>
    /\ last_ret = [call |-> -1, value |-> Null]
    /\ total_pages = 0
    /\ full_list = <<>>
    /\ fetch_ret = Null
    /\ InitRun
    /\ obs_server = [obs |-> <<>>, limit |-> 50]

NextFetch == FetchStart \/ TimestampAttempt \/ PlainRequest

\* The fetch of the trace list.
SpecFetch == InitFetch /\ [][NextFetch]_vars

\* ===================================================================== claims
\* ---------------------------------------------------- the paginated fetcher
\* The requests of call k (0: the discovery call, p: the call for page p).
CallLog(k) == SelectSeq(http_log, LAMBDA e : e.call = k)
Calls == 0..(MaxPages + 1)
CallReturned(k) == last_ret.call >= k
CallFailed(k) == CallLog(k) # <<>> /\ CallLog(k)[Len(CallLog(k))].outcome # "ok"
HasTs(e) == "fromTimestamp" \in DOMAIN e.params
UiErrors(k) == SelectSeq(ui, LAMBDA m : m.call = k /\ m.level = "error")

\* The order of the chain, common to C2 as stated and as amended: request j of
\* a call carries representation j, a fifth request carries no fromTimestamp,
\* there is no sixth, and a request follows only a failed one.
ChainOrder(k) ==
    LET L == CallLog(k)
        ts == kwargs.fromTimestamp
        reps == << ts,
                   Replace(ts, "Z", UtcOffset),
                   SplitFirst(ts, ".") \o <<"Z">>,
                   SplitFirst(ts, "T") >>
    IN /\ Len(L) <= 5
       /\ \A j \in 1..Len(L) :
            /\ j <= 4 => HasTs(L[j]) /\ L[j].params.fromTimestamp = reps[j]
            /\ j = 5 => ~HasTs(L[j])
            /\ j < Len(L) => L[j].outcome # "ok"

\* C2 (as stated): with a fromTimestamp the four representations are tried in
\* the fixed order, every failed request of the chain (non-2xx or any other
\* failure) is followed by the next representation, and the request without
\* fromTimestamp comes only after all four failed.
C2_EveryFailureFallsThrough ==
    "fromTimestamp" \in DOMAIN kwargs =>
        \A k \in Calls :
            /\ ChainOrder(k)
            /\ CallReturned(k) /\ CallLog(k) # <<>> =>
                 \/ CallLog(k)[Len(CallLog(k))].outcome = "ok"
                 \/ Len(CallLog(k)) = 5

\* C2 (amended): the representations are tried in the fixed order; a request
\* that fails with a non-2xx status is followed by the next representation and,
\* after the fourth, by one request without fromTimestamp; any other request
\* failure ends the call at once: it returns None with the error shown.
C2_HttpErrorFallsThrough ==
    "fromTimestamp" \in DOMAIN kwargs =>
        \A k \in Calls :
            LET L == CallLog(k)
            IN /\ ChainOrder(k)
               /\ \A j \in 1..Len(L) : j < Len(L) => L[j].outcome = "http_error"
               /\ CallReturned(k) /\ L # <<>> =>
                    \/ L[Len(L)].outcome = "ok"
                    \/ Len(L) = 5
                    \/ L[Len(L)].outcome = "error" /\ Len(UiErrors(k)) = 1
               /\ ~CallReturned(k) /\ L # <<>> => L[Len(L)].outcome = "http_error"

\* C2 witness: all four representations were rejected and the request without
\* fromTimestamp has been issued.
C2_Witness ==
    /\ "fromTimestamp" \in DOMAIN kwargs
    /\ kwargs.fromTimestamp = TsFull
    /\ Len(CallLog(0)) = 5

\* The concatenation of the pages whose call returned a response.
RECURSIVE GoodPages(_)
GoodPages(p) ==
    IF p = 0 THEN <<>>
    ELSE GoodPages(p - 1) \o (IF CallFailed(p) THEN <<>> ELSE server_pages[p])

C4_FailureDistinctFromEmpty ==
    fpc = "done" /\ CallFailed(0) =>
        <<full_list, fetch_ret, ui[Len(ui)].msg>> #
            << <<>>, fetch_traces_data_result(<<>>).ret, fetch_traces_data_result(<<>>).msg >>

PageRequests == SelectSeq(http_log, LAMBDA e : e.call >= 1)

\* C5 (as stated): after a discovery that reports totalPages = N, exactly N
\* more requests are issued, the j-th for page j, whatever the parameters.
C5_ExactlyNRequests ==
    fpc = "done" /\ ~CallFailed(0) =>
        /\ Len(PageRequests) = total_pages
        /\ \A j \in 1..Len(PageRequests) : PageRequests[j].params.page = j

\* C5 (amended): after a discovery that reports totalPages = N, exactly N page
\* calls are made, for page 1..N in increasing order; a page call issues one
\* request, plus one for every request carrying fromTimestamp that is rejected
\* with a non-2xx status (so exactly one when no fromTimestamp is given, and at
\* most five).
C5_NPageCalls ==
    fpc = "done" /\ ~CallFailed(0) =>
        /\ \A p \in Calls : (CallLog(p) # <<>>) <=> (p <= total_pages)
        /\ \A j \in 1..Len(PageRequests) :
            /\ PageRequests[j].params.page = PageRequests[j].call
            /\ j > 1 => PageRequests[j - 1].call <= PageRequests[j].call
        /\ \A p \in 1..total_pages :
            /\ Len(CallLog(p)) = 1 + Len(SelectSeq(CallLog(p),
                                    LAMBDA e : HasTs(e) /\ e.outcome = "http_error"))
            /\ Len(CallLog(p)) <= 5
            /\ "fromTimestamp" \notin DOMAIN kwargs => Len(CallLog(p)) = 1

\* C5 witness: two pages were fetched and one page call needed the whole chain.
C5_Witness ==
    /\ fpc = "done"
    /\ total_pages = 2
    /\ Len(CallLog(1)) = 5
    /\ Len(CallLog(2)) = 1

\* C6: when every request succeeds the result is the data of pages
\* 1..totalPages, concatenated in page order, each record once and in the order
\* of its page.
C6_ConcatenationInPageOrder ==
    fpc = "done" /\ (\A j \in 1..Len(http_log) : http_log[j].outcome = "ok") =>
        /\ total_pages = Len(server_pages)
        /\ full_list = Flatten(server_pages)

\* C6 witness: a two-page fetch without a failure whose pages are not in
\* sorted order.
C6_Witness ==
    /\ fpc = "done"
    /\ \A j \in 1..Len(http_log) : http_log[j].outcome = "ok"
    /\ server_pages = << <<2, 1>>, <<1>> >>
    /\ full_list = <<2, 1, 1>>

\* C7: when the first three representations are rejected with a non-2xx status
\* the date-only representation is tried next, and when it is accepted the call
\* returns that response: no error is shown for the call and no request
\* without fromTimestamp is issued.
C7_DateOnlyAccepted ==
    "fromTimestamp" \in DOMAIN kwargs =>
        \A k \in Calls :
            LET L == CallLog(k)
            IN Len(L) >= 3 /\ (\A j \in 1..3 : L[j].outcome = "http_error") =>
                /\ Len(L) = 3 =>
                     /\ call.page = k /\ call.i = 3 /\ ~call.nots
                     /\ fpc \in {"discovery", "pages"}
                     /\ UiErrors(k) = <<>>
                /\ Len(L) >= 4 /\ L[4].outcome = "ok" =>
                     /\ Len(L) = 4
                     /\ HasTs(L[4])
                     /\ L[4].params.fromTimestamp = SplitFirst(kwargs.fromTimestamp, "T")
                     /\ UiErrors(k) = <<>>
                     /\ CallReturned(k)
                     /\ last_ret.call = k => last_ret.value = ServerResponse(L[4].params)

\* C7 witness: the discovery call was rejected three times and answered on the
\* date-only request.
C7_Witness ==
    /\ "fromTimestamp" \in DOMAIN kwargs
    /\ kwargs.fromTimestamp = TsFull
    /\ Len(CallLog(0)) = 4
    /\ \A j \in 1..3 : CallLog(0)[j].outcome = "http_error"
    /\ CallLog(0)[4].outcome = "ok"
    /\ last_ret.call = 0
    /\ last_ret.value # Null

\* ------------------------------------------------------- claims on the analysis
\* analyze_traces has returned: summarize_usage_data has stored its list.
AnalyzeTracesReturned == analyzer.usage_data_summarized2 # Absent

FieldKeys ==
    DOMAIN analyzer.fields_counters.total \cup DOMAIN analyzer.fields_counters.valid
        \cup DOMAIN analyzer.fields_counters.empty

\* C1: after analyze_traces has processed a batch, total[f] >= valid[f] and
\* total[f] >= empty[f] for every field-name key f of the counters, the None
\* and the empty-string key included.
C1_TotalDominates ==
    AnalyzeTracesReturned =>
        \A f \in FieldKeys :
            /\ Count(analyzer.fields_counters.total, f) >= Count(analyzer.fields_counters.valid, f)
            /\ Count(analyzer.fields_counters.total, f) >= Count(analyzer.fields_counters.empty, f)

\* The first trace of the batch has gone through the for loop of analyze_traces.
FirstTraceDone == apc \in {"traces", "obs_discovery"} /\ tpos = 2

FirstInput == _get_input_arg(traces_list[1]).v

\* C10: a validate-field trace with a null field value and a non-null field
\* name (the empty string included) adds exactly 1 to empty[field_name] and
\* exactly 1 to total[field_name]; here it is the first trace of the run, so
\* both counters go from 0 to 1.
C10_NullValueCountsEmptyAndTotal ==
    ( /\ FirstTraceDone
      /\ GetDefault(traces_list[1], "name", Str("unnamed")) = Str(VF)
      /\ FirstInput.f_name # Null
      /\ FirstInput.f_value = Null )
    => /\ Count(analyzer.fields_counters.empty, FirstInput.f_name) = 1
       /\ Count(analyzer.fields_counters.total, FirstInput.f_name) = 1

\* The observations the next page request of _check_usage3 retains.
RetainedNext ==
    SelectSeq(ObsResponse([page |-> obs_page, type |-> "GENERATION"]).data,
              LAMBDA o : KnownTrace(analyzer, o))

\* A metric value the extraction is to replace by zero.
Malformed(o, metric_type, metric) ==
    \/ metric_type \notin DOMAIN o
    \/ o[metric_type].t # "dict"
    \/ metric \notin DOMAIN o[metric_type].d
    \/ float(o[metric_type].d[metric]).t = "raise"

\* C8: for every retained observation, the extraction of its six metrics ends
\* without an error, and a metric that is missing, null or non-numeric counts
\* as zero in what is stored.
C8_MalformedMetricIsZero ==
    apc = "obs_pages" =>
        \A i \in 1..Len(RetainedNext) :
            LET o == RetainedNext[i]
                r == _get_observation_cost_usage(o)
            IN /\ r.t = "ok"
               /\ \A metric_type \in {"costDetails", "usageDetails"} :
                  \A j \in 1..Len(MetricList) :
                    Malformed(o, metric_type, MetricList[j])
                        => GetDefault(r.v[metric_type], MetricList[j], 0) = 0

\* The field records F and the usage totals U of the join.
JoinF == imp_data_vf(analyzer)
JoinU == analyzer.usage_data_summarized2.l
IdsOf(records) == {records[i].trace_id : i \in 1..Len(records)}
Max(a, b) == IF a >= b THEN a ELSE b

\* C9: whenever the batch holds a validate-field trace, the join of F and U
\* is stored and is a true outer join, an empty U included: every record of F
\* and of U is in a row, an id only in F has null usage columns, an id only
\* in U has null field columns, and there are at least
\* max(ids of F, ids of U) rows.
C9_TrueOuterJoin ==
    (AnalyzeTracesReturned /\ Count(analyzer.trace_names_counters, Str(VF)) > 0) =>
        /\ "join_df" \in DOMAIN session_state
        /\ LET rows == session_state["join_df"].rows
               Row(n) == rows[n]
           IN /\ \A i \in 1..Len(JoinF) : \E n \in 1..Len(rows) :
                    \A c \in DOMAIN JoinF[i] : Row(n)[c] = JoinF[i][c]
              /\ \A i \in 1..Len(JoinU) : \E n \in 1..Len(rows) :
                    Row(n)["trace_id"] = JoinU[i].trace_id
                        /\ Row(n)["trace_name"] = JoinU[i].trace_name
              /\ \A id \in IdsOf(JoinF) \ IdsOf(JoinU) : \E n \in 1..Len(rows) :
                    Row(n)["trace_id"] = id
                        /\ \A c \in NumericColumns \cap DOMAIN Row(n) : Row(n)[c] = Null
              /\ \A id \in IdsOf(JoinU) \ IdsOf(JoinF) : \E n \in 1..Len(rows) :
                    Row(n)["trace_id"] = id /\ Row(n)["field_name"] = Null
              /\ Len(rows) >= Max(Cardinality(IdsOf(JoinF)), Cardinality(IdsOf(JoinU)))

\* --------------------------------------------------- claims on the trace loop
\* The trace the next pass of the for loop of analyze_traces handles.
Cur == traces_list[tpos]
InLoop == apc = "traces"
FC == analyzer.fields_counters

\* The name a trace is counted under when 'no name' covers a null name too.
NameOrUnnamed(trace) ==
    IF Get(trace, "name") = Null THEN Str("unnamed") ELSE trace["name"]

\* The counters and detail lists a trace of another name must leave alone.
FieldStateUnchanged ==
    /\ analyzer'.fields_counters = analyzer.fields_counters
    /\ analyzer'.suggestions = analyzer.suggestions
    /\ analyzer'.warnings = analyzer.warnings

\* C11 as stated: a trace whose name is not 'validate-field' leaves the five
\* field counters and the two detail lists unchanged and adds exactly 1 to the
\* name counter of its name, 'unnamed' when it has no name (a missing or a
\* null name).
C11_OtherNameOnlyCounted ==
    [][(InLoop /\ NameOrUnnamed(Cur) # Str(VF)) =>
        /\ FieldStateUnchanged
        /\ analyzer'.trace_names_counters =
                Inc(analyzer.trace_names_counters, NameOrUnnamed(Cur))]_vars

\* C11 amended: the same, with 'unnamed' only for a trace without a name key;
\* a null name is counted under None.
C11_OtherNameCountedAsGiven ==
    [][(InLoop /\ GetDefault(Cur, "name", Str("unnamed")) # Str(VF)) =>
        /\ FieldStateUnchanged
        /\ analyzer'.trace_names_counters =
                Inc(analyzer.trace_names_counters, GetDefault(Cur, "name", Str("unnamed")))
        /\ "name" \notin DOMAIN Cur =>
                Count(analyzer'.trace_names_counters, Str("unnamed"))
                    = Count(analyzer.trace_names_counters, Str("unnamed")) + 1]_vars

\* A trace named 'other' that carries a field, a valid signal, a suggestion
\* and a warning has been counted after a validate-field trace.
C11_Witness ==
    /\ apc = "obs_discovery" /\ tpos = 3
    /\ Get(traces_list[2], "name") = Str("other")
    /\ "input" \in DOMAIN traces_list[2]
    /\ Count(analyzer.trace_names_counters, Str("other")) = 1
    /\ Count(analyzer.trace_names_counters, Str(VF)) = 1
    /\ Len(analyzer.suggestions) = 1

\* What one signal must look like after a pass over a validate-field trace
\* whose input and output can be read.
SignalStep(signal, list) ==
    LET in == _get_input_arg(Cur).v
        text == _get_output_arg(Cur).v[signal]
    IN IF text = Str("")
       THEN /\ analyzer'.fields_counters[signal] = FC[signal]
            /\ analyzer'[list] = analyzer[list]
       ELSE /\ analyzer'.fields_counters[signal] = Inc(FC[signal], in.f_name)
            /\ Len(analyzer'[list]) = Len(analyzer[list]) + 1
            /\ SubSeq(analyzer'[list], 1, Len(analyzer[list])) = analyzer[list]
            /\ LET rec == analyzer'[list][Len(analyzer'[list])]
               IN /\ DOMAIN rec = {"field_name", "raw_value", "trace_id", signal}
                  /\ rec["field_name"] = in.f_name
                  /\ rec["raw_value"] = in.f_value
                  /\ rec[signal] = text
                  /\ rec["trace_id"] = Cur["id"]

Readable(trace) == _get_input_arg(trace).t = "ok" /\ _get_output_arg(trace).t = "ok"

\* C12: for suggestion and for warning, a validate-field trace without the
\* signal (or with an empty one) changes neither the signal's counter nor its
\* list; one with a non-empty signal adds exactly 1 to the counter of its field
\* name and appends exactly one record with that trace's field name, raw value,
\* signal text and trace id.
C12_SignalsRecorded ==
    [][(InLoop /\ Get(Cur, "name") = Str(VF) /\ Readable(Cur)) =>
        SignalStep("suggestion", "suggestions") /\ SignalStep("warning", "warnings")]_vars

\* A trace with both signals after a trace with a suggestion and an empty
\* warning: two suggestions and one warning are on record.
C12_Witness ==
    /\ apc = "obs_discovery" /\ tpos = 3
    /\ Len(analyzer.suggestions) = 2
    /\ Len(analyzer.warnings) = 1
    /\ analyzer.warnings[1]["trace_id"] = Str("t2")
    /\ Get(traces_list[1]["output"].d, "warning") = Str("")

\* C13: a validate-field trace with a non-null field name and a present
\* (non-null) field value never adds to empty[field_name], however falsy the
\* value is.
C13_FalsyValueIsNotEmpty ==
    [][(InLoop /\ Get(Cur, "name") = Str(VF) /\ _get_input_arg(Cur).t = "ok"
            /\ _get_input_arg(Cur).v.f_name # Null
            /\ _get_input_arg(Cur).v.f_value # Null) =>
        analyzer'.fields_counters.empty = FC.empty]_vars

\* Two traces of the same field with falsy values that are not null, '' and
\* 0, have been counted in total and not in empty.
C13_Witness ==
    /\ apc = "obs_discovery" /\ tpos = 3
    /\ _get_input_arg(traces_list[1]).v.f_value = Str("")
    /\ _get_input_arg(traces_list[2]).v.f_value = Num(0)
    /\ Count(FC.total, Str("first_name")) = 2
    /\ Count(FC.empty, Str("first_name")) = 0

\* ------------------------------------------------------- claims on the rerun
\* analyze_traces is at the top of its for loop, before the first trace.
AtLoopStart == apc = "traces" /\ tpos = 1

\* C14: at the start of analyze_traces every counter, detail list and map is
\* empty, the map form and the list form of the usage totals included, on a
\* new analyzer as on one that has been through an earlier run.
C14_RunStartsEmpty ==
    AtLoopStart =>
        /\ \A k \in DOMAIN analyzer.fields_counters : analyzer.fields_counters[k] = EmptyDict
        /\ analyzer.suggestions = <<>>
        /\ analyzer.warnings = <<>>
        /\ analyzer.trace_names = EmptyDict
        /\ analyzer.trace_names_counters = EmptyDict
        /\ analyzer.usage_data = <<>>
        /\ analyzer.usage_data_traces = <<>>
        /\ analyzer.usage_data_summarized = EmptyDict
        /\ analyzer.usage_data_summarized2 \in {Absent, List(<<>>)}
        /\ analyzer.trace_important_data_by_group[VF] = <<>>

\* ------------------------------------------------ claims on the usage totals
\* The ids of the traces analyze_traces was given in this run.
KnownIds == {traces_list[k]["id"] : k \in 1..Len(traces_list)}

\* The observation ids usage_data_traces holds under any key.
KeptObsIds ==
    UNION {{analyzer.usage_data_traces[j].observations[i].o_id :
                i \in 1..Len(analyzer.usage_data_traces[j].observations)} :
            j \in 1..Len(analyzer.usage_data_traces)}

\* C15: every record of usage_data and every key of usage_data_traces has a
\* trace id of the known set, and an observation of a trace outside the set is
\* in neither structure.
C15_OnlyKnownTraces ==
    /\ \A i \in 1..Len(analyzer.usage_data) : analyzer.usage_data[i].trace_id \in KnownIds
    /\ TraceKeys(analyzer.usage_data_traces) \subseteq KnownIds
    /\ \A n \in 1..Len(obs_server.obs) :
        obs_server.obs[n]["traceId"] \notin KnownIds =>
            /\ \A i \in 1..Len(analyzer.usage_data) :
                    analyzer.usage_data[i].id # obs_server.obs[n]["id"]
            /\ obs_server.obs[n]["id"] \notin KeptObsIds

\* The run has ended normally with one observation kept and one, of a trace
\* that is not in the batch, dropped.
C15_Witness ==
    /\ apc = "done"
    /\ Len(obs_server.obs) = 2
    /\ \E n \in 1..2 : obs_server.obs[n]["traceId"] = Str("tX")
    /\ Len(analyzer.usage_data) = 1
    /\ TraceKeys(analyzer.usage_data_traces) = {Str("t1")}

\* The sum of a metric over the records of usage_data of one trace.
RECURSIVE FlatSum(_, _, _, _)
FlatSum(records, tid, metric_type, metric) ==
    IF records = <<>> THEN 0
    ELSE (IF Head(records).trace_id = tid
          THEN GetDefault(Head(records)[metric_type], metric, 0) ELSE 0)
         + FlatSum(Tail(records), tid, metric_type, metric)

\* The name analyze_traces recorded for a trace id.
NameOfId(tid) ==
    LET k == CHOOSE k \in 1..Len(traces_list) : traces_list[k]["id"] = tid
    IN GetDefault(traces_list[k], "name", Str("unnamed"))

\* C16: for every trace id of usage_data_traces the six totals are the sums
\* of the metric over that trace's retained observations (an absent metric
\* counts 0), observations_count is their number and trace_name is the name
\* recorded for the id.
C16_TotalsAreSums ==
    AnalyzeTracesReturned =>
        \A tid \in TraceKeys(analyzer.usage_data_traces) :
            /\ tid \in DOMAIN analyzer.usage_data_summarized
            /\ LET tot == analyzer.usage_data_summarized[tid]
                   mine == SelectSeq(analyzer.usage_data, LAMBDA u : u.trace_id = tid)
               IN /\ tot.observations_count = Len(mine)
                  /\ tot.trace_name = NameOfId(tid)
                  /\ \A j \in 1..Len(MetricList) :
                        /\ tot["costDetails_" \o MetricList[j]]
                            = FlatSum(analyzer.usage_data, tid, "costDetails", MetricList[j])
                        /\ tot["usageDetails_" \o MetricList[j]]
                            = FlatSum(analyzer.usage_data, tid, "usageDetails", MetricList[j])

\* A trace with two observations of different cost has been summed.
C16_Witness ==
    /\ AnalyzeTracesReturned
    /\ Len(analyzer.usage_data) = 2
    /\ TraceKeys(analyzer.usage_data_traces) = {Str("t1")}
    /\ analyzer.usage_data[1].costDetails # analyzer.usage_data[2].costDetails
    /\ analyzer.usage_data_summarized[Str("t1")].costDetails_input = 5

Permuted(seq, p) == [i \in 1..Len(seq) |-> seq[p[i]]]

\* C17: the totals of a trace are the same for every order of its
\* observation list.
C17_OrderInvariant ==
    \A j \in 1..Len(analyzer.usage_data_traces) :
        LET entry == analyzer.usage_data_traces[j]
        IN \A p \in Permutations(1..Len(entry.observations)) :
            Totals(analyzer, [entry EXCEPT !.observations = Permuted(@, p)])
                = Totals(analyzer, entry)

\* The observation list of a trace holds two observations whose metrics
\* differ.
C17_Witness ==
    /\ apc = "done"
    /\ Len(analyzer.usage_data_traces) = 1
    /\ Len(analyzer.usage_data_traces[1].observations) = 2
    /\ analyzer.usage_data_traces[1].observations[1].usage_cost.costDetails
        # analyzer.usage_data_traces[1].observations[2].usage_cost.costDetails
    /\ analyzer.usage_data_traces[1].observations[1].usage_cost.usageDetails
        # analyzer.usage_data_traces[1].observations[2].usage_cost.usageDetails

\* C18: after summarize_usage_data the list holds exactly one record per key
\* of the map and no other, and each record equals the map entry of its
\* trace_id in count, name and the six totals.
C18_ViewsConsistent ==
    AnalyzeTracesReturned =>
        LET m == analyzer.usage_data_summarized
            l == analyzer.usage_data_summarized2.l
        IN /\ Len(l) = Cardinality(DOMAIN m)
           /\ {l[i]["trace_id"] : i \in 1..Len(l)} = DOMAIN m
           /\ \A i \in 1..Len(l) :
                /\ DOMAIN l[i] = DOMAIN m[l[i]["trace_id"]] \cup {"trace_id"}
                /\ \A k \in DOMAIN m[l[i]["trace_id"]] : l[i][k] = m[l[i]["trace_id"]][k]

\* Two traces with observations have been summarized, in both views.
C18_Witness ==
    /\ apc = "done"
    /\ DOMAIN analyzer.usage_data_summarized = {Str("t1"), Str("t2")}
    /\ Len(analyzer.usage_data_summarized2.l) = 2
    /\ analyzer.usage_data_summarized[Str("t1")].costDetails_input
        # analyzer.usage_data_summarized[Str("t1")].usageDetails_input

\* --------------------------------------------------- claims on the extraction
\* The all-empty record.
AllEmpty == [k \in OutputKeys |-> Str("")]

\* What output extraction is to return for a trace.
ExpectedOutput(trace) ==
    IF "output" \notin DOMAIN trace \/ trace["output"] = Null THEN AllEmpty
    ELSE LET out == trace["output"].d
         IN IF "content" \in DOMAIN out
            THEN IF out["content"] = Null THEN AllEmpty
                 ELSE [k \in OutputKeys |-> GetDefault(out["content"].d, k, Str(""))]
            ELSE [k \in OutputKeys |-> GetDefault(out, k, Str(""))]

\* C19: output extraction never fails and returns a record with the four
\* keys: all-empty for an absent output, read from the nested content when
\* output has a 'content' key (all-empty when that content is null), read from
\* the output map otherwise, '' for every key the map read lacks.
C19_OutputExtractionTotal ==
    \A k \in 1..Len(traces_list) :
        /\ _get_output_arg(traces_list[k]).t = "ok"
        /\ _get_output_arg(traces_list[k]).v = ExpectedOutput(traces_list[k])

\* The input has the shape the two paths are written for: absent, or a map.
StructuredInput(trace) == "input" \notin DOMAIN trace \/ trace["input"].t = "dict"

\* input.kwargs.request, an empty map for each missing level.
RequestOf(input) ==
    IF "kwargs" \notin DOMAIN input THEN EmptyDict
    ELSE IF "request" \notin DOMAIN input["kwargs"].d THEN EmptyDict
    ELSE input["kwargs"].d["request"].d

\* What input extraction is to return for a trace.
ExpectedInput(trace) ==
    IF "input" \notin DOMAIN trace THEN [f_name |-> Null, f_value |-> Null]
    ELSE LET input == trace["input"].d
         IN IF "args" \in DOMAIN input /\ input["args"].t = "list" /\ Len(input["args"].l) > 0
            THEN [f_name |-> Get(input["args"].l[1].d, "field_name"),
                  f_value |-> Get(input["args"].l[1].d, "value")]
            ELSE [f_name |-> Get(RequestOf(input), "field_name"),
                  f_value |-> Get(RequestOf(input), "value")]

\* The field record the pass has appended for the trace.
LastFieldRecord(self) ==
    self.trace_important_data_by_group[VF][Len(self.trace_important_data_by_group[VF])]

\* C20: input extraction takes name and value from args[0] when input.args
\* is a non-empty list, whatever the keyword path holds; from
\* input.kwargs.request when args is absent or empty, null for each missing key
\* or level; both are null when input is absent.  The trace is not modified.
C20_InputPrecedence ==
    [][(InLoop /\ Get(Cur, "name") = Str(VF) /\ StructuredInput(Cur)) =>
        /\ _get_input_arg(Cur) = Ok(ExpectedInput(Cur))
        /\ traces_list' = traces_list
        /\ apc' # "failed" =>
            /\ LastFieldRecord(analyzer')["field_name"] = ExpectedInput(Cur).f_name
            /\ LastFieldRecord(analyzer')["field_value"] = ExpectedInput(Cur).f_value]_vars

\* A trace with two positional arguments and a keyword request, then one with
\* a keyword request only, have been read: the first from args[0], the second
\* from the request, its missing value null.
C20_Witness ==
    /\ apc = "obs_discovery" /\ tpos = 3
    /\ \A k \in 1..2 : Get(traces_list[k], "input").t = "dict"
    /\ "kwargs" \in DOMAIN traces_list[1]["input"].d
    /\ Get(traces_list[1]["input"].d, "args").t = "list"
    /\ Len(traces_list[1]["input"].d["args"].l) = 2
    /\ "args" \notin DOMAIN traces_list[2]["input"].d
    /\ Len(analyzer.trace_important_data_by_group[VF]) = 4
    /\ analyzer.trace_important_data_by_group[VF][2]["field_name"] = Str("first_name")
    /\ LastFieldRecord(analyzer)["field_name"] = Str("email")
    /\ LastFieldRecord(analyzer)["field_value"] = Null

\* ----------------------------------------------------- claims on the stages
\* The page requests of _check_usage3, in the order they were issued.
PageLog == SelectSeq(obs_log, LAMBDA q : "page" \in DOMAIN q)

RECURSIVE SumCounts(_)
SumCounts(c) ==
    IF DOMAIN c = {} THEN 0
    ELSE LET k == CHOOSE k \in DOMAIN c : TRUE
         IN c[k] + SumCounts([x \in DOMAIN c \ {k} |-> c[x]])

\* C21: within one analyze_traces run no observation request is issued
\* before every trace of the batch is in the id-to-name map and has been
\* through the for loop; the first request is the discovery, the page requests
\* follow one by one in increasing page order; summarize_usage_data starts only
\* after the last page.
C21_StagesInSequence ==
    /\ obs_log # <<>> =>
        /\ tpos = Len(traces_list) + 1
        /\ KnownIds \subseteq DOMAIN analyzer.trace_names
        /\ SumCounts(analyzer.trace_names_counters) = Len(traces_list)
        /\ "limit" \in DOMAIN obs_log[1]
        /\ Len(PageLog) = Len(obs_log) - 1
    /\ \A i \in 1..Len(PageLog) : PageLog[i].page = i
    /\ apc \in {"traces", "obs_discovery"} => PageLog = <<>>
    /\ AnalyzeTracesReturned =>
        /\ apc \in {"done", "failed"}
        /\ Len(PageLog) = obs_total_pages
        /\ obs_log # <<>>

\* A run over two traces and two observation pages has ended normally.
C21_Witness ==
    /\ apc = "done"
    /\ Len(traces_list) = 2
    /\ obs_total_pages = 2
    /\ obs_log = << [limit |-> ObsDiscoveryLimit, type |-> "GENERATION"],
                    [page |-> 1, type |-> "GENERATION"],
                    [page |-> 2, type |-> "GENERATION"] >>
    /\ Len(analyzer.usage_data) = 2

\* How many records of usage_data are of the observation with this id.
TimesCollected(id) ==
    Cardinality({i \in 1..Len(analyzer.usage_data) : analyzer.usage_data[i].id = id})

\* C22: after _check_usage3, every observation of the endpoint whose traceId
\* is a known trace id is in usage_data exactly once, for any number of
\* observations and any default page size of the server.
C22_WholeCollectionRetrieved ==
    AnalyzeTracesReturned =>
        \A n \in 1..Len(obs_server.obs) :
            obs_server.obs[n]["traceId"] \in KnownIds =>
                TimesCollected(obs_server.obs[n]["id"]) = 1

\* ---------------------------------------------------- claims on the session
\* The script run has come to the Profile Steps tab: analyze_traces has
\* returned and the tabs before it were drawn without an exception.
AtProfileSteps ==
    /\ apc \in {"done", "failed"}
    /\ AnalyzeTracesReturned
    /\ display_validate_field_analysis(analyzer, session_state).t = "ok"

\* The join of the field records and usage totals of the analyzer at hand.
CurrentJoin ==
    merge_outer(DataFrame(imp_data_vf(analyzer)),
                DataFrame(analyzer.usage_data_summarized2.l), "trace_id")

\* C23: in every run of a session the Profile Steps view finds
\* st.session_state['join_df'], and it is the join of the current run's data,
\* also when the batch of the run holds no validate-field trace.
C23_ProfileStepsReadsCurrentJoin ==
    AtProfileSteps =>
        /\ "join_df" \in DOMAIN session_state
        /\ CurrentJoin.t = "ok"
        /\ session_state["join_df"] = CurrentJoin.v

\* ------------------------------------------------- claims on the fetch bound
\* C24: a call of _get_traces_list issues at most 5 requests, the four
\* representations and one request without fromTimestamp; after the request
\* without fromTimestamp the call issues no other; get_traces_list_all over N
\* pages issues at most 5 * (N + 1) requests, and until it has returned there
\* is always a next step to take.
C24_FallbackBounded ==
    /\ \A k \in Calls :
        /\ Len(CallLog(k)) <= 5
        /\ \A j \in 1..Len(CallLog(k)) :
            /\ (j < Len(CallLog(k)) /\ "fromTimestamp" \in DOMAIN kwargs) => HasTs(CallLog(k)[j])
            /\ j = 5 => ~HasTs(CallLog(k)[j])
    /\ Len(http_log) <= 5 * (total_pages + 1)
    /\ fpc \in {"discovery", "pages"} => ENABLED NextFetch
    /\ fpc = "done" => ~ENABLED (TimestampAttempt \/ PlainRequest)

\* Every call of a fetch over two pages has gone through the whole chain:
\* fifteen requests, and the fetch has returned.
C24_Witness ==
    /\ fpc = "done"
    /\ total_pages = 2
    /\ Len(http_log) = 5 * (total_pages + 1)
    /\ \A k \in 0..2 : Len(CallLog(k)) = 5 /\ ~HasTs(CallLog(k)[5])

\* --------------------------------------------- claims on lists and counters
\* The records of a detail list that are of field name f.
RecordsOf(list, f) == {i \in 1..Len(list) : list[i]["field_name"] = f}

\* A detail list and its counter agree, in all and per field name.
ListAgrees(signal, list) ==
    /\ Len(analyzer[list]) = SumCounts(FC[signal])
    /\ \A f \in DOMAIN FC[signal] \cup {analyzer[list][i]["field_name"] : i \in 1..Len(analyzer[list])} :
        Cardinality(RecordsOf(analyzer[list], f)) = Count(FC[signal], f)

\* C25: after a completed analyze_traces run the number of suggestion records
\* is the sum of the suggestion counter, the number of warning records is the
\* sum of the warning counter, and for every field name the records of that
\* name are as many as its counter value.
C25_ListsMatchCounters ==
    AnalyzeTracesReturned =>
        ListAgrees("suggestion", "suggestions") /\ ListAgrees("warning", "warnings")

\* A run with two suggestions for one field and one warning has completed.
C25_Witness ==
    /\ apc = "done"
    /\ Len(analyzer.suggestions) = 2
    /\ Len(analyzer.warnings) = 1
    /\ Count(FC.suggestion, Str("first_name")) = 2
    /\ Count(FC.warning, Str("first_name")) = 1

\* ------------------------------------------------ claims on the name lookup
\* The sum of observations_count over the summarized traces.
RECURSIVE SumObservationCounts(_)
SumObservationCounts(m) ==
    IF DOMAIN m = {} THEN 0
    ELSE LET k == CHOOSE k \in DOMAIN m : TRUE
         IN m[k].observations_count + SumObservationCounts([x \in DOMAIN m \ {k} |-> m[x]])

\* C26: in every state of analyze_traces every key of usage_data_traces is a
\* key of trace_names, so the name lookup of summarize_usage_data cannot fail;
\* after summarization the observation counts of the summarized traces add up
\* to the number of records of usage_data.
C26_NameLookupSafe ==
    /\ TraceKeys(analyzer.usage_data_traces) \subseteq DOMAIN analyzer.trace_names
    /\ summarize_usage_data(analyzer).t = "ok"
    /\ AnalyzeTracesReturned =>
        SumObservationCounts(analyzer.usage_data_summarized) = Len(analyzer.usage_data)

\* Three observations of two traces have been summarized: two of them are of
\* trace t1.
C26_Witness ==
    /\ AnalyzeTracesReturned
    /\ Len(analyzer.usage_data) = 3
    /\ DOMAIN analyzer.usage_data_summarized = {Str("t1"), Str("t2")}
    /\ analyzer.usage_data_summarized[Str("t1")].observations_count = 2
====
